---- MODULE Spec2Model ----
(***************************************************************************)
(* AzureBlockUpload: block planning (constructor / analizeFile) and the    *)
(* upload protocol of start(): one job per block, run by a ThreadPool of   *)
(* simultaneousUploads slots, each job suspending at its three awaits      *)
(* (readBlock, putBlock, commit).  JavaScript runs each segment between    *)
(* two awaits without interruption, so every segment is one action.        *)
(* The model follows the version of the class that encrypts; the older     *)
(* version runs the same protocol as a start() without a key.  ThreadPool, *)
(* FileUtils and BlobStorage are not part of these sources: the pool is    *)
(* modelled from its contract, the other two by their possible outcomes.   *)
(***************************************************************************)
EXTENDS Integers, Sequences, FiniteSets, TLC

\* ------------------------------------------------------------------ bounds
MaxFileSize == 3
MaxPool == 2
NumIVs == 2

\* BlobStorage.BLOCK_MAX_SIZE, the default block size (scaled to the model).
BLOCK_MAX_SIZE == 2

\* ------------------------------------------------------- JavaScript values
Undefined == [type |-> "undefined", v |-> 0]
Str == [type |-> "string", v |-> 0]
NumV(n) == [type |-> "number", v |-> n]

\* Truthiness of an option value (a non-empty string, a number other than 0).
Truthy(x) == (x.type = "string") \/ (x.type = "number" /\ x.v # 0)

\* A JavaScript number that may be NaN.
NaN == [nan |-> TRUE, v |-> 0]
Num(n) == [nan |-> FALSE, v |-> n]

Abs(a) == IF a < 0 THEN -a ELSE a

\* a % b of JavaScript for a >= 0: the sign of the dividend, NaN for b = 0.
JsRem(a, b) == IF b = 0 THEN NaN ELSE Num(a % Abs(b))

\* a / b when b divides a (a >= 0, b # 0).
JsExactDiv(a, b) == IF b < 0 THEN -(a \div (-b)) ELSE a \div b

\* Math.ceil(a / b) for a >= 0: NaN for 0 / 0.
JsCeilDiv(a, b) ==
  IF b = 0 THEN NaN
  ELSE IF b < 0 THEN Num(-(a \div (-b)))
  ELSE Num((a + b - 1) \div b)

\* --------------------------------------------------------------- block IDs
Base64Alphabet ==
  << "A","B","C","D","E","F","G","H","I","J","K","L","M","N","O","P",
     "Q","R","S","T","U","V","W","X","Y","Z","a","b","c","d","e","f",
     "g","h","i","j","k","l","m","n","o","p","q","r","s","t","u","v",
     "w","x","y","z","0","1","2","3","4","5","6","7","8","9","+","/" >>

B64(i) == Base64Alphabet[i + 1]

\* base64 of a sequence of character codes (btoa / Buffer.toString("base64")).
RECURSIVE base64(_)
base64(s) ==
  IF Len(s) = 0 THEN << >>
  ELSE IF Len(s) = 1 THEN
    << B64(s[1] \div 4), B64((s[1] % 4) * 16), "=", "=" >>
  ELSE IF Len(s) = 2 THEN
    << B64(s[1] \div 4), B64((s[1] % 4) * 16 + s[2] \div 16),
       B64((s[2] % 16) * 4), "=" >>
  ELSE
    << B64(s[1] \div 4), B64((s[1] % 4) * 16 + s[2] \div 16),
       B64((s[2] % 16) * 4 + s[3] \div 64), B64(s[3] % 64) >>
    \o base64(SubSeq(s, 4, Len(s)))

\* The decimal digits of n >= 0 as character codes (String(n)).
RECURSIVE toString(_)
toString(n) ==
  IF n < 10 THEN << 48 + n >> ELSE Append(toString(n \div 10), 48 + (n % 10))

\* lodash padStart(n, length) with its default padding character, the space.
padStart(n, length) ==
  LET s == toString(n)
  IN  IF Len(s) >= length THEN s
      ELSE [i \in 1..(length - Len(s)) |-> 32] \o s

\* opts.blockIDPrefix || "block": the default prefix, as character codes.
blockIDPrefix == << 98, 108, 111, 99, 107 >>

\* Mutant: the block index is left out of the string that is encoded.
blockIDWithoutIndex(nBlock) == base64(blockIDPrefix)

blockID(nBlock) == base64(blockIDPrefix \o padStart(nBlock, 5))

\* ------------------------------------------------------------------- state
VARIABLES
  phase,                \* "new", "threw", "constructed", "started"
  ctorError,            \* the message of the Error the constructor threw
  optsBlockSize,        \* opts.blockSize as the constructor was given it
  fileSize, blockSize, simultaneousUploads,
  totalBlocks,          \* a JavaScript number: [nan, v]
  totalRemainingBytes,
  dataEncryptionKey,    \* whether start() was given a (truthy) key
  blockIDList, artifacts,
  pc,                   \* per submitted job: where it is suspended
  queue,                \* the pool's waiting tasks, in submission order
  transferred,          \* block indices whose putBlock has succeeded
  faults,               \* the errors thrown so far, in the order thrown
  putBlockListCalls, onProgressCalls, onSuccessCalls, onErrorCalls,
  promise               \* the promise start() returned

config == << phase, ctorError, optsBlockSize, fileSize, blockSize, simultaneousUploads, totalBlocks >>
calls == << putBlockListCalls, onProgressCalls, onSuccessCalls, onErrorCalls >>
vars == << config, totalRemainingBytes, dataEncryptionKey, blockIDList, artifacts,
           pc, queue, transferred, faults, calls, promise >>

NoError == "none"

\* The value of resolve() without an argument, and of a promise not yet settled.
NoValue == [hasArtifacts |-> FALSE, artifacts |-> << >>]
Pending == [state |-> "pending", value |-> NoValue]

Init ==
  /\ phase = "new"
  /\ ctorError = NoError
  /\ optsBlockSize = Undefined
  /\ fileSize = 0
  /\ blockSize = 0
  /\ simultaneousUploads = 0
  /\ totalBlocks = Num(0)
  /\ totalRemainingBytes = 0
  /\ dataEncryptionKey = FALSE
  /\ blockIDList = << >>
  /\ artifacts = [iv |-> << >>, at |-> << >>, range |-> << >>]
  /\ pc = << >>
  /\ queue = << >>
  /\ transferred = {}
  /\ faults = << >>
  /\ putBlockListCalls = << >>
  /\ onProgressCalls = << >>
  /\ onSuccessCalls = << >>
  /\ onErrorCalls = << >>
  /\ promise = Pending

\* ------------------------------------------------- constructor, analizeFile
\* The options tried: a block size that is a string, a number from -2 (0 takes the
\* default, as a missing one does); a pool size that is missing, a string, or 1 and up.
BlockSizeOpts == {Str} \cup {NumV(n) : n \in -2..MaxFileSize}
PoolOpts == {Undefined, Str} \cup {NumV(n) : n \in 1..MaxPool}

\* The first check of the constructor that throws, or NoError.
ConstructorThrows(urlIsString, fileIsFile, o) ==
  IF ~urlIsString THEN "url must be a string"
  ELSE IF ~fileIsFile THEN "file must be instance of File"
  ELSE IF Truthy(o.blockSize) /\ o.blockSize.type # "number"
    THEN "blockSize must be a number"
  ELSE IF Truthy(o.simultaneousUploads) /\ o.simultaneousUploads.type # "number"
    THEN "simultaneousUploads must be a number"
  ELSE NoError

\* this.blockSize = opts.blockSize || BlobStorage.BLOCK_MAX_SIZE
RequestedBlockSize(o) ==
  IF Truthy(o.blockSize) THEN o.blockSize.v ELSE BLOCK_MAX_SIZE

\* this.simultaneousUploads = opts.simultaneousUploads || 3
RequestedSimultaneousUploads(o) ==
  IF Truthy(o.simultaneousUploads) THEN o.simultaneousUploads.v ELSE 3

\* analizeFile: the block size, reduced to the file size for a smaller file.
EffectiveBlockSize(size, requested) ==
  IF size < requested THEN size ELSE requested

\* analizeFile: how many blocks will be sent.
TotalBlocks(size, bs) ==
  LET r == JsRem(size, bs)
  IN  IF ~r.nan /\ r.v = 0 THEN Num(JsExactDiv(size, bs)) ELSE JsCeilDiv(size, bs)

Construct(urlIsString, fileIsFile, o, size) ==
  /\ phase = "new"
  /\ optsBlockSize' = o.blockSize
  /\ LET err == ConstructorThrows(urlIsString, fileIsFile, o)
     IN  IF err # NoError
         THEN /\ phase' = "threw"
              /\ ctorError' = err
              /\ UNCHANGED << fileSize, blockSize, simultaneousUploads, totalBlocks,
                              totalRemainingBytes >>
         ELSE /\ phase' = "constructed"
              /\ ctorError' = NoError
              /\ simultaneousUploads' = RequestedSimultaneousUploads(o)
              /\ fileSize' = size
              /\ totalRemainingBytes' = size
              /\ blockSize' = EffectiveBlockSize(size, RequestedBlockSize(o))
              /\ totalBlocks' = TotalBlocks(size, blockSize')
  /\ UNCHANGED << dataEncryptionKey, blockIDList, artifacts, pc, queue, transferred,
                  faults, calls, promise >>

\* ------------------------------------------------------------------ promise
\* resolve(v) and reject(e) of the Promise executor: only the first one settles.
Resolve(p, v) == IF p.state = "pending" THEN [state |-> "resolved", value |-> v] ELSE p
Reject(p, e) == IF p.state = "pending" THEN [state |-> "rejected", value |-> e] ELSE p

\* --------------------------------------------------------------- ThreadPool
\* The tasks that have been started and have not finished.
Running == {n \in DOMAIN pc : pc[n] \in {"reading", "putting", "committing"}}
Finished == {n \in DOMAIN pc : pc[n] \in {"done", "failed"}}

\* Mutant: the pool is built with one slot too many.
PoolCapacityPlusOne == simultaneousUploads + 1

\* new ThreadPool(this.simultaneousUploads)
PoolCapacity == simultaneousUploads

\* pool.run(task) for every task of the loop: tasks wait in submission order.
PoolSubmit(n) == [i \in 1..n |-> i - 1]

\* A slot is free and a task is waiting.
PoolCanStart == queue # << >> /\ Cardinality(Running) < PoolCapacity

\* -------------------------------------------------------------------- start
\* Mutant: the loop stops one block early (nBlock < this.totalBlocks - 1).
SubmittedJobsOneShort(tb) == IF tb.nan \/ tb.v < 1 THEN 0 ELSE tb.v - 1

\* for (let nBlock = 0; nBlock < this.totalBlocks; nBlock += 1)
SubmittedJobs(tb) == IF tb.nan \/ tb.v < 0 THEN 0 ELSE tb.v

Start(key) ==
  /\ phase = "constructed"
  /\ phase' = "started"
  /\ dataEncryptionKey' = key
  /\ blockIDList' = << >>
  /\ artifacts' = [iv |-> << >>, at |-> << >>, range |-> << >>]
  /\ queue' = PoolSubmit(SubmittedJobs(totalBlocks))
  /\ pc' = [n \in 0..(SubmittedJobs(totalBlocks) - 1) |-> "queued"]
  /\ promise' = Pending
  /\ UNCHANGED << ctorError, optsBlockSize, fileSize, blockSize, simultaneousUploads, totalBlocks,
                  totalRemainingBytes, transferred, faults, calls >>

\* ---------------------------------------------------------------------- job
\* Mutant: the end of the last block is not cut at the end of the file.
ToNoClamp(nBlock) == (nBlock + 1) * blockSize

From(nBlock) == nBlock * blockSize
To(nBlock) ==
  IF (nBlock + 1) * blockSize < fileSize THEN (nBlock + 1) * blockSize ELSE fileSize

\* Mutant: the block ID is put at the front of the list (unshift).
PushBlockIDFront(list, nBlock) == << blockID(nBlock) >> \o list

\* blockIDList.push(blockID)
PushBlockID(list, nBlock) == Append(list, blockID(nBlock))

\* Mutant: the value is appended (push) instead of stored at the block index.
SetAtPush(arr, nBlock, v) == (Cardinality(DOMAIN arr) :> v) @@ arr

\* artifacts.x[nBlock] = v on a JavaScript array
SetAt(arr, nBlock, v) == (nBlock :> v) @@ arr

\* `bytes=${from}-${to - 1}`
RangeString(nBlock) == << "bytes=", From(nBlock), "-", To(nBlock) - 1 >>

\* The authentication tag AES-GCM gives for the bytes of a block under an iv.
AuthTag(nBlock, iv) == << "at", From(nBlock), To(nBlock), iv >>

\* const progress = (nBlock + 1) / this.totalBlocks, kept as a fraction
Progress(nBlock) == << nBlock + 1, totalBlocks.v >>

\* Mutant: the counter is not set back to 0 when it falls below 0.
RemainingNoClamp(remaining, bs) == remaining - bs

\* Mutant: the counter is decremented by the default block size, not this.blockSize.
RemainingByMaxSize(remaining, bs) ==
  IF remaining - BLOCK_MAX_SIZE < 0 THEN 0 ELSE remaining - BLOCK_MAX_SIZE

\* this.totalRemainingBytes -= this.blockSize, set to 0 when below 0
Remaining(remaining, bs) == IF remaining - bs < 0 THEN 0 ELSE remaining - bs

\* if (this.totalRemainingBytes === 0) await commit()
ShouldCommit(remaining) == remaining = 0

\* if (this.totalRemainingBytes === 0) { onSuccess; resolve }
IsComplete(remaining) == remaining = 0

\* The value the promise of start() is resolved with: resolve().
ResolvedValue(a) == NoValue

\* The argument of callbacks.onSuccess: { artifacts }.
SuccessArgument(a) == [hasArtifacts |-> TRUE, artifacts |-> a]

\* Mutant: the catch block reports the error and forgets to reject.
PromiseAfterCatchNoReject(p, error) == p

\* The promise after the catch block of a job: reject(error).
PromiseAfterCatch(p, error) == Reject(p, error)

\* The onError calls after the catch block of a job: this.callbacks.onError(error).
OnErrorAfterCatch(errs, error) == Append(errs, error)

\* catch (error) { this.callbacks.onError(error); return reject(error); }
Catch(nBlock, error) ==
  /\ faults' = Append(faults, error)
  /\ onErrorCalls' = OnErrorAfterCatch(onErrorCalls, error)
  /\ promise' = PromiseAfterCatch(promise, error)
  /\ pc' = [pc EXCEPT ![nBlock] = "failed"]

Error(op, nBlock) == [op |-> op, block |-> nBlock]

\* The pool starts the next waiting task: the job runs up to its first await.
JobStart ==
  /\ phase = "started"
  /\ PoolCanStart
  /\ LET nBlock == Head(queue)
     IN  /\ queue' = Tail(queue)
         /\ blockIDList' = PushBlockID(blockIDList, nBlock)
         /\ pc' = [pc EXCEPT ![nBlock] = "reading"]
  /\ UNCHANGED << config, totalRemainingBytes, dataEncryptionKey, artifacts,
                  transferred, faults, calls, promise >>

\* FileUtils.readBlock settles: the job runs up to the call of putBlock.
ReadBlockReturns(nBlock, outcome, iv) ==
  /\ phase = "started"
  /\ nBlock \in DOMAIN pc
  /\ pc[nBlock] = "reading"
  /\ IF outcome = "readFails"
     THEN /\ Catch(nBlock, Error("readBlock", nBlock))
          /\ UNCHANGED artifacts
     ELSE IF dataEncryptionKey /\ outcome = "encryptFails"
     THEN /\ Catch(nBlock, Error("encrypt", nBlock))
          /\ artifacts' = [artifacts EXCEPT !.range = SetAt(@, nBlock, RangeString(nBlock))]
     ELSE /\ artifacts' =
               IF dataEncryptionKey
               THEN [range |-> SetAt(artifacts.range, nBlock, RangeString(nBlock)),
                     iv |-> SetAt(artifacts.iv, nBlock, iv),
                     at |-> SetAt(artifacts.at, nBlock, AuthTag(nBlock, iv))]
               ELSE [artifacts EXCEPT !.range = SetAt(@, nBlock, RangeString(nBlock))]
          /\ pc' = [pc EXCEPT ![nBlock] = "putting"]
          /\ UNCHANGED << faults, onErrorCalls, promise >>
  /\ UNCHANGED << config, totalRemainingBytes, dataEncryptionKey, blockIDList, queue,
                  transferred, putBlockListCalls, onProgressCalls, onSuccessCalls >>

\* BlobStorage.putBlock settles: the job runs to its end, or up to commit().
PutBlockReturns(nBlock, ok) ==
  /\ phase = "started"
  /\ nBlock \in DOMAIN pc
  /\ pc[nBlock] = "putting"
  /\ IF ~ok
     THEN /\ Catch(nBlock, Error("putBlock", nBlock))
          /\ UNCHANGED << totalRemainingBytes, transferred, putBlockListCalls,
                          onProgressCalls, onSuccessCalls >>
     ELSE /\ transferred' = transferred \cup {nBlock}
          /\ totalRemainingBytes' = Remaining(totalRemainingBytes, blockSize)
          /\ IF ShouldCommit(totalRemainingBytes')
             THEN /\ putBlockListCalls' = Append(putBlockListCalls, blockIDList)
                  /\ pc' = [pc EXCEPT ![nBlock] = "committing"]
                  /\ UNCHANGED << onProgressCalls, onSuccessCalls, promise >>
             ELSE /\ onProgressCalls' = Append(onProgressCalls, Progress(nBlock))
                  /\ IF IsComplete(totalRemainingBytes')
                     THEN /\ onSuccessCalls' = Append(onSuccessCalls, SuccessArgument(artifacts))
                          /\ promise' = Resolve(promise, ResolvedValue(artifacts))
                     ELSE UNCHANGED << onSuccessCalls, promise >>
                  /\ pc' = [pc EXCEPT ![nBlock] = "done"]
                  /\ UNCHANGED putBlockListCalls
          /\ UNCHANGED << faults, onErrorCalls >>
  /\ UNCHANGED << config, dataEncryptionKey, blockIDList, artifacts, queue >>

\* BlobStorage.putBlockList settles: the job runs to its end.
CommitReturns(nBlock, ok) ==
  /\ phase = "started"
  /\ nBlock \in DOMAIN pc
  /\ pc[nBlock] = "committing"
  /\ IF ~ok
     THEN /\ Catch(nBlock, Error("putBlockList", nBlock))
          /\ UNCHANGED << onProgressCalls, onSuccessCalls >>
     ELSE /\ onProgressCalls' = Append(onProgressCalls, Progress(nBlock))
          /\ IF IsComplete(totalRemainingBytes)
             THEN /\ onSuccessCalls' = Append(onSuccessCalls, SuccessArgument(artifacts))
                  /\ promise' = Resolve(promise, ResolvedValue(artifacts))
             ELSE UNCHANGED << onSuccessCalls, promise >>
          /\ pc' = [pc EXCEPT ![nBlock] = "done"]
          /\ UNCHANGED << faults, onErrorCalls >>
  /\ UNCHANGED << config, totalRemainingBytes, dataEncryptionKey, blockIDList, artifacts,
                  queue, transferred, putBlockListCalls >>

\* ------------------------------------------------------------ specification
Blocks == 0..MaxFileSize
IVs == 1..NumIVs

Next ==
  \/ \E urlIsString, fileIsFile \in BOOLEAN, bs \in BlockSizeOpts, su \in PoolOpts,
        size \in 0..MaxFileSize :
       Construct(urlIsString, fileIsFile, [blockSize |-> bs, simultaneousUploads |-> su], size)
  \/ \E key \in BOOLEAN : Start(key)
  \/ JobStart
  \/ \E nBlock \in Blocks, outcome \in {"ok", "readFails", "encryptFails"}, iv \in IVs :
       ReadBlockReturns(nBlock, outcome, iv)
  \/ \E nBlock \in Blocks, ok \in BOOLEAN : PutBlockReturns(nBlock, ok)
  \/ \E nBlock \in Blocks, ok \in BOOLEAN : CommitReturns(nBlock, ok)

Spec == Init /\ [][Next]_vars

\* ------------------------------------------------------------ fair schedule
\* A step of the upload: the pool starts a waiting task, or a call of readBlock,
\* putBlock or putBlockList returns.
UploadStep ==
  \/ JobStart
  \/ \E nBlock \in Blocks, outcome \in {"ok", "readFails", "encryptFails"}, iv \in IVs :
       ReadBlockReturns(nBlock, outcome, iv)
  \/ \E nBlock \in Blocks, ok \in BOOLEAN : PutBlockReturns(nBlock, ok)
  \/ \E nBlock \in Blocks, ok \in BOOLEAN : CommitReturns(nBlock, ok)

\* The event loop does not stop while the pool can start a task or a call is
\* outstanding: some step of the upload is eventually taken.
Fairness == WF_vars(UploadStep)

FairSpec == Init /\ [][Next]_vars /\ Fairness

\* ------------------------------------------------------------------- claims
Range(seq) == {seq[i] : i \in 1..Len(seq)}
NumJobs == Cardinality(DOMAIN pc)
AllFinished == phase = "started" /\ Finished = DOMAIN pc
Settled == promise.state # "pending"

\* Two jobs reported their completion in the reverse of their submission order.
OutOfOrder ==
  /\ Len(onProgressCalls) >= 2
  /\ onProgressCalls[1][1] > onProgressCalls[2][1]

C2_CommitAfterAllTransferred ==
  (phase = "started" /\ putBlockListCalls # << >>) =>
    /\ ~totalBlocks.nan
    /\ \A nBlock \in 0..(totalBlocks.v - 1) : nBlock \in transferred

C2_Witness ==
  /\ Len(putBlockListCalls) = 1
  /\ totalBlocks.v >= 2
  /\ OutOfOrder
  /\ \E nBlock \in DOMAIN pc : pc[nBlock] = "committing"

\* C3: once the read or the putBlock of a block has failed, onError has been invoked
\* with the error of every failure, the promise of start() is rejected with the
\* first error thrown, and neither putBlockList nor onSuccess is ever invoked.
ReadOrPutFailed ==
  \E i \in 1..Len(faults) : faults[i].op \in {"readBlock", "putBlock"}

C3_FailureRejectsAndNeverCommits ==
  (phase = "started" /\ ReadOrPutFailed) =>
    /\ Range(faults) \subseteq Range(onErrorCalls)
    /\ promise.state = "rejected"
    /\ promise.value = faults[1]
    /\ putBlockListCalls = << >>
    /\ onSuccessCalls = << >>

C3_Witness ==
  /\ AllFinished
  /\ Len(faults) = 1 /\ faults[1].op = "putBlock" /\ faults[1].block = 0
  /\ NumJobs >= 2
  /\ transferred = DOMAIN pc \ {0}
  /\ promise = [state |-> "rejected", value |-> Error("putBlock", 0)]

\* C4: at most simultaneousUploads jobs are running (started and not finished) in
\* every state, and a job that is neither running nor finished waits in the pool.
C4_AtMostKRunning ==
  phase = "started" =>
    /\ Cardinality(Running) <= simultaneousUploads
    /\ Range(queue) = {nBlock \in DOMAIN pc : pc[nBlock] = "queued"}
    /\ \A i \in 1..Len(queue) : queue[i] = Cardinality(Running \cup Finished) + i - 1

C4_Witness ==
  /\ phase = "started"
  /\ NumJobs > simultaneousUploads
  /\ Cardinality(Running) = simultaneousUploads
  /\ queue # << >>
  /\ Finished # {}

\* C5: every block-ID list passed to putBlockList holds the IDs of the block indices
\* 0..totalBlocks-1, one each, in ascending index order.
C5_BlockIDsInSubmissionOrder ==
  \A i \in 1..Len(putBlockListCalls) :
    /\ ~totalBlocks.nan
    /\ putBlockListCalls[i] = [k \in 1..totalBlocks.v |-> blockID(k - 1)]

C5_Witness ==
  /\ Len(putBlockListCalls) = 1
  /\ Len(putBlockListCalls[1]) >= 3
  /\ OutOfOrder

\* C6 (the claim as stated): onError is invoked at most once for an upload, and
\* only with the error the promise was rejected with.
C6_OnErrorAtMostOnce ==
  /\ Len(onErrorCalls) <= 1
  /\ \A i \in 1..Len(onErrorCalls) :
       promise.state = "rejected" /\ promise.value = onErrorCalls[i]

\* C7 (the claim as stated): a resolved promise carries the artifacts when a key
\* was supplied, and without a key neither the resolved value nor the argument of
\* onSuccess carries artifacts.
C7_ResolvedWithArtifacts ==
  promise.state = "resolved" =>
    IF dataEncryptionKey
    THEN promise.value.hasArtifacts /\ promise.value.artifacts = artifacts
    ELSE /\ ~promise.value.hasArtifacts
         /\ \A i \in 1..Len(onSuccessCalls) : ~onSuccessCalls[i].hasArtifacts

\* C8: under the fair schedule, a start() on an instance with fileSize > 0 and a
\* positive block size leads to a state where every submitted job has run (once:
\* one block ID pushed per job) and finished, and the promise is settled.
C8_EventuallySettles ==
  (phase = "started" /\ fileSize > 0 /\ blockSize > 0)
    ~> (AllFinished /\ NumJobs >= 1 /\ Len(blockIDList) = NumJobs /\ Settled)

C8_Witness ==
  /\ AllFinished /\ fileSize > 0 /\ blockSize > 0
  /\ NumJobs >= 3
  /\ Len(blockIDList) = NumJobs
  /\ promise.state = "resolved"

\* C9 (the claim as stated): a start() for a file of 0 bytes never ends with no
\* block job submitted and the promise left pending.
C9_EmptyFileSettles ==
  ~(phase = "started" /\ fileSize = 0 /\ DOMAIN pc = {} /\ promise.state = "pending")

\* C10 (the claim as stated): a constructor given a block size that is a number
\* <= 0 throws, so no instance is built from it.
C10_NonPositiveBlockSizeThrows ==
  (phase # "new" /\ optsBlockSize.type = "number" /\ optsBlockSize.v <= 0) =>
    phase = "threw"

\* ------------------------------------------------------------ block planning
\* The planning of the constructor alone, over more file and block sizes: every
\* file size up to MaxPlanFileSize with every block size from -2 to one above it.
MaxPlanFileSize == 10

PlanBlockSizeOpts == {Str} \cup {NumV(n) : n \in -2..(MaxPlanFileSize + 1)}

PlanNext ==
  \E urlIsString, fileIsFile \in BOOLEAN, bs \in PlanBlockSizeOpts, su \in PoolOpts,
     size \in 0..MaxPlanFileSize :
    Construct(urlIsString, fileIsFile, [blockSize |-> bs, simultaneousUploads |-> su], size)

PlanSpec == Init /\ [][PlanNext]_vars

\* The block size the constructor starts from, for the options it was given.
Requested == RequestedBlockSize([blockSize |-> optsBlockSize])

\* The block indices start() submits a job for.
JobIndices == 0..(SubmittedJobs(totalBlocks) - 1)

RECURSIVE SumOfLengths(_)
SumOfLengths(n) == IF n = 0 THEN 0 ELSE SumOfLengths(n - 1) + (To(n - 1) - From(n - 1))

\* C11: for an instance built with fileSize >= 0 and a requested block size > 0, the
\* ranges [From(n), To(n)) of the jobs lie in [0, fileSize), are pairwise disjoint,
\* cover every byte of the file, and their lengths sum to fileSize.
C11_RangesPartitionFile ==
  (phase = "constructed" /\ Requested > 0) =>
    /\ \A n \in JobIndices : 0 <= From(n) /\ From(n) <= To(n) /\ To(n) <= fileSize
    /\ \A n, m \in JobIndices : n < m => To(n) <= From(m)
    /\ \A byte \in 0..(fileSize - 1) : \E n \in JobIndices : From(n) <= byte /\ byte < To(n)
    /\ SumOfLengths(SubmittedJobs(totalBlocks)) = fileSize

C11_Witness ==
  /\ phase = "constructed" /\ Requested = 4 /\ fileSize = 10
  /\ JobIndices = 0..2
  /\ From(2) = 8 /\ To(2) = 10

\* The least integer not below a / b, for a >= 0 and b # 0.
Ceil(a, b) ==
  CHOOSE k \in (-a - 1)..(a + 1) :
    IF b > 0 THEN k * b >= a /\ (k - 1) * b < a
             ELSE k * b <= a /\ (k - 1) * b > a

Min(a, b) == IF a < b THEN a ELSE b

\* C12 (the claim as stated): after analizeFile totalBlocks is the number
\* ceil(fileSize / min(requested, fileSize)), and a file smaller than the requested
\* block size is planned as exactly one block spanning the whole file.
C12_TotalBlocksIsCeil ==
  phase = "constructed" =>
    /\ ~totalBlocks.nan
    /\ Min(Requested, fileSize) # 0
    /\ totalBlocks.v = Ceil(fileSize, Min(Requested, fileSize))
    /\ (fileSize < Requested =>
          totalBlocks.v = 1 /\ From(0) = 0 /\ To(0) = fileSize)

\* ---------------------------------------------------------------- block IDs
\* The block IDs of the jobs alone: the pool holds two jobs of an upload of
\* MaxIdBlocks blocks of one byte, their block indices drawn from IdIndices (the
\* first and last index of every number of digits), and starts them.
MaxIdBlocks == 99999

IdIndices == {0, 7, 9, 10, 99, 100, 999, 1000, 9999, 10000, MaxIdBlocks - 1}

IdInit ==
  /\ phase = "started"
  /\ ctorError = NoError
  /\ optsBlockSize = NumV(1)
  /\ fileSize = MaxIdBlocks
  /\ blockSize = 1
  /\ simultaneousUploads = 2
  /\ totalBlocks = TotalBlocks(MaxIdBlocks, 1)
  /\ totalRemainingBytes = MaxIdBlocks
  /\ dataEncryptionKey = FALSE
  /\ blockIDList = << >>
  /\ artifacts = [iv |-> << >>, at |-> << >>, range |-> << >>]
  /\ \E n, m \in IdIndices :
       /\ n # m
       /\ queue = << n, m >>
       /\ pc = (n :> "queued") @@ (m :> "queued")
  /\ transferred = {}
  /\ faults = << >>
  /\ putBlockListCalls = << >>
  /\ onProgressCalls = << >>
  /\ onSuccessCalls = << >>
  /\ onErrorCalls = << >>
  /\ promise = Pending

IdNext == JobStart

IdSpec == IdInit /\ [][IdNext]_vars

\* The prefix followed by n written with 5 digits, zeros in front, base64-encoded.
ZeroPaddedID(n) ==
  base64(blockIDPrefix \o
         << 48 + ((n \div 10000) % 10), 48 + ((n \div 1000) % 10),
            48 + ((n \div 100) % 10), 48 + ((n \div 10) % 10), 48 + (n % 10) >>)

\* C13 (the claim as stated): the ID a job pushes for block index n is the base64
\* encoding of the prefix followed by n left-padded with '0' to 5 digits.
C13_BlockIDIsZeroPadded ==
  Range(blockIDList) = {ZeroPaddedID(n) : n \in Running}

\* C14: the block IDs pushed for distinct block indices, up to index
\* MaxIdBlocks - 1, are distinct.
C14_BlockIDsDistinct ==
  \A i, j \in 1..Len(blockIDList) : i # j => blockIDList[i] # blockIDList[j]

C14_Witness ==
  /\ Len(blockIDList) = 2
  /\ Running = {9999, MaxIdBlocks - 1}

\* ---------------------------------------------------------------- artifacts
\* What job i records for the bytes it transfers, given the iv it drew.
RecordedRange(i) == << "bytes=", i * blockSize, "-", Min((i + 1) * blockSize, fileSize) - 1 >>
RecordedTag(i, iv) == << "at", i * blockSize, Min((i + 1) * blockSize, fileSize), iv >>

ArtifactsComplete(a) ==
  /\ DOMAIN a.iv = DOMAIN pc /\ DOMAIN a.at = DOMAIN pc /\ DOMAIN a.range = DOMAIN pc
  /\ \A i \in DOMAIN pc :
       /\ a.iv[i] \in IVs
       /\ a.at[i] = RecordedTag(i, a.iv[i])
       /\ a.range[i] = RecordedRange(i)

\* An index of the artifacts is written by the step of job i that follows its
\* read, and what is written there stays.
ArtifactsWrittenOnce ==
  \A i \in Blocks :
    /\ (i \in DOMAIN artifacts.range =>
          i \in DOMAIN artifacts'.range /\ artifacts'.range[i] = artifacts.range[i])
    /\ (i \in DOMAIN artifacts.iv =>
          /\ i \in DOMAIN artifacts'.iv /\ artifacts'.iv[i] = artifacts.iv[i]
          /\ i \in DOMAIN artifacts'.at /\ artifacts'.at[i] = artifacts.at[i])
    /\ (i \in (DOMAIN artifacts'.range \cup DOMAIN artifacts'.iv \cup DOMAIN artifacts'.at)
              \ DOMAIN artifacts.range =>
          i \in DOMAIN pc /\ pc[i] = "reading" /\ pc'[i] \in {"putting", "failed"})

\* C15: when a key was supplied and onSuccess is invoked, its artifacts hold at every
\* block index i the iv job i drew, the tag of block i under that iv and the range
\* string of block i; every index is written once, by job i only.
C15_ArtifactsPerBlock ==
  /\ [](dataEncryptionKey =>
          \A k \in 1..Len(onSuccessCalls) : ArtifactsComplete(onSuccessCalls[k].artifacts))
  /\ [][phase = "started" => ArtifactsWrittenOnce]_vars

C15_Witness ==
  /\ dataEncryptionKey /\ Len(onSuccessCalls) = 1
  /\ NumJobs >= 3
  /\ OutOfOrder
  /\ onSuccessCalls[1].artifacts.iv[0] # onSuccessCalls[1].artifacts.iv[1]

\* -------------------------------------------------------- start() called again
\* start() called again on the same instance once every job of the previous call
\* has finished.  The call builds a new promise, block-ID list, artifacts and pool;
\* the fields of the instance, totalRemainingBytes among them, are as the previous
\* call left them.  The calls and faults recorded are those of the current call.
Restart(key) ==
  /\ AllFinished
  /\ dataEncryptionKey' = key
  /\ blockIDList' = << >>
  /\ artifacts' = [iv |-> << >>, at |-> << >>, range |-> << >>]
  /\ queue' = PoolSubmit(SubmittedJobs(totalBlocks))
  /\ pc' = [n \in 0..(SubmittedJobs(totalBlocks) - 1) |-> "queued"]
  /\ promise' = Pending
  /\ transferred' = {}
  /\ faults' = << >>
  /\ putBlockListCalls' = << >>
  /\ onProgressCalls' = << >>
  /\ onSuccessCalls' = << >>
  /\ onErrorCalls' = << >>
  /\ UNCHANGED << config, totalRemainingBytes >>

RestartNext ==
  \/ Next
  \/ \E key \in BOOLEAN : Restart(key)

RestartSpec == Init /\ [][RestartNext]_vars

\* C17 (the claim as stated): every call of start(), also a second or later one,
\* begins with totalRemainingBytes equal to fileSize, invokes putBlockList at most
\* once and only after every block of that call is transferred, and exactly once
\* when all its jobs have finished without a failure.
C17_EveryCallCommitsOnce ==
  (phase = "started" /\ fileSize > 0 /\ NumJobs >= 1) =>
    /\ ((\A n \in DOMAIN pc : pc[n] = "queued") => totalRemainingBytes = fileSize)
    /\ Len(putBlockListCalls) <= 1
    /\ (putBlockListCalls # << >> => transferred = DOMAIN pc)
    /\ (AllFinished /\ faults = << >> => Len(putBlockListCalls) = 1)

\* --------------------------------------------------------- remaining bytes
\* The number of jobs whose putBlock has succeeded.
Completed == Cardinality(transferred)

\* C18: in a start() on a fresh instance with fileSize > 0, between the steps of the
\* jobs totalRemainingBytes is max(0, fileSize - c * blockSize) for the number c of
\* jobs whose putBlock has succeeded; it is never negative, and it is 0 exactly when
\* c is totalBlocks.
C18_RemainingBytes ==
  (phase = "started" /\ fileSize > 0) =>
    /\ totalRemainingBytes =
         (IF fileSize - Completed * blockSize < 0 THEN 0
          ELSE fileSize - Completed * blockSize)
    /\ totalRemainingBytes >= 0
    /\ (totalRemainingBytes = 0 <=> (~totalBlocks.nan /\ Completed = totalBlocks.v))

\* The part of C18 about steps: no step of a started upload increases
\* totalRemainingBytes.
RemainingNeverIncreases ==
  [][phase = "started" => totalRemainingBytes' <= totalRemainingBytes]_vars

\* ----------------------------------------------------------------- progress
\* The fractions passed to onProgress have one denominator, totalBlocks, so they
\* are compared by their numerators.
StrictlyIncreasing(ps) == \A i, j \in 1..Len(ps) : i < j => ps[i][1] < ps[j][1]
NonDecreasing(ps) == \A i, j \in 1..Len(ps) : i < j => ps[i][1] <= ps[j][1]
EndsAtOne(ps) == ps # << >> /\ ps[Len(ps)][1] = ps[Len(ps)][2]

\* C19: every job reports (index + 1) / totalBlocks; with a pool of capacity 1 the
\* values passed to onProgress are strictly increasing, and the last value of a
\* successful upload is 1.  (With capacity 2 or more and 2 or more blocks, the
\* state of C19_Witness is reached: a successful upload whose reported values are
\* not non-decreasing and end below 1.)
C19_ProgressWithOneWorker ==
  /\ \A k \in 1..Len(onProgressCalls) :
       \E n \in transferred : onProgressCalls[k] = << n + 1, totalBlocks.v >>
  /\ (phase = "started" /\ simultaneousUploads = 1) =>
       /\ StrictlyIncreasing(onProgressCalls)
       /\ (onSuccessCalls # << >> => EndsAtOne(onProgressCalls))

C19_Witness ==
  /\ phase = "started" /\ simultaneousUploads >= 2
  /\ ~totalBlocks.nan /\ totalBlocks.v >= 2
  /\ AllFinished /\ onSuccessCalls # << >> /\ promise.state = "resolved"
  /\ Len(onProgressCalls) = totalBlocks.v
  /\ ~NonDecreasing(onProgressCalls)
  /\ ~EndsAtOne(onProgressCalls)

\* The sequential case of C19 happens: one worker, two or more blocks, success.
C19_OneWorkerWitness ==
  /\ phase = "started" /\ simultaneousUploads = 1
  /\ NumJobs >= 2 /\ onSuccessCalls # << >>
  /\ Len(onProgressCalls) = NumJobs

====
